---- MODULE Spec2Model ----
(***************************************************************************)
(* Model of baselines/weighted_deepq/build_graph.py (albertometelli/wql).  *)
(*                                                                         *)
(* The graph builders are modelled on one observation (batch size 1) with  *)
(* a tabular network: q_func returns, for the observation, the value of    *)
(* the variable that belongs to each action (and particle / sigma head).   *)
(* float32 tensors are exact rationals plus NaN; only the integrals of     *)
(* calculate_prob are rounded, to multiples of 1/Precision.                *)
(*                                                                         *)
(* Four specifications share the variables:                                *)
(*   SpecProb    the estimators calculate_prob_particles / calculate_prob  *)
(*   SpecTarget  the value targets of the three train graphs               *)
(*   Spec        train, update_target and act on the live and the target   *)
(*               network                                                   *)
(*   SpecAct     the act functions and the exploration variable eps        *)
(***************************************************************************)
EXTENDS Integers, Sequences, FiniteSets, TLC

\* ------------------------------------------------------------------------
\* Bounds of the model
\* ------------------------------------------------------------------------
NumActions == 2

NumParticles == 2

MaxK == 3

QMax == 1

SigmaMax == 1

Precision == 20

\* eps is counted in units of 1/EpsUnit
EpsUnit == 2

\* largest draw of a standard normal, in standard deviations
NoiseMax == 1

\* param_noise_scale is 0.01 * 1.01^e with e in -ScaleMax..ScaleMax
ScaleMax == 1

\* largest draw of np.random.randn, in whole standard deviations
RandnMax == 1

\* the --add-noise sweep raises alpha by 1/AlphaSteps
AlphaSteps == 1

\* longest dataset handed to compute_scores
MaxSteps == 3

\* most trials of a configuration (--n-experiments)
MaxTrials == 2

\* most configurations one while loop of a sweep is followed through
MaxRuns == 21

\* ------------------------------------------------------------------------
\* Program constants
\* ------------------------------------------------------------------------
GammaNum == 99

GammaDen == 100

n_trapz == 100

SigmaWeightNum == 1

SigmaWeightDen == 2

LimitSigmas == 8

\* initial param_noise_threshold, in hundredths
ThresholdInit == 5

\* delta of the UCB policy, 0.1
DeltaNum == 1

DeltaDen == 10

Actions == 1..NumActions

QVals == 0..QMax

SigmaVals == 0..SigmaMax

\* ------------------------------------------------------------------------
\* float32 values: exact rationals in lowest terms, plus NaN
\* ------------------------------------------------------------------------
Abs(x) == IF x < 0 THEN -x ELSE x

RECURSIVE GCD(_, _)
GCD(a, b) == IF b = 0 THEN a ELSE GCD(b, a % b)

NaN == [nan |-> TRUE, n |-> 0, d |-> 1]

Rat(n, d) ==
    LET g == GCD(Abs(n), Abs(d))
        s == IF d < 0 THEN -1 ELSE 1
    IN  [nan |-> FALSE, n |-> (s * n) \div g, d |-> (s * d) \div g]

FInt(i) == [nan |-> FALSE, n |-> i, d |-> 1]

FAdd(a, b) ==
    IF a.nan \/ b.nan THEN NaN
    ELSE LET g == GCD(a.d, b.d)
         IN  Rat(a.n * (b.d \div g) + b.n * (a.d \div g), (a.d \div g) * b.d)

FNeg(a) == IF a.nan THEN NaN ELSE [nan |-> FALSE, n |-> -a.n, d |-> a.d]

FSub(a, b) == FAdd(a, FNeg(b))

FMul(a, b) ==
    IF a.nan \/ b.nan THEN NaN
    ELSE LET g1 == GCD(Abs(a.n), b.d)
             g2 == GCD(Abs(b.n), a.d)
         IN  Rat((a.n \div g1) * (b.n \div g2), (a.d \div g2) * (b.d \div g1))

\* IEEE division: 0/0 is NaN.  A non-zero numerator over 0 (an infinity)
\* does not occur: every divisor below is the sum of its non-negative
\* numerators.
FDiv(a, b) ==
    IF a.nan \/ b.nan THEN NaN
    ELSE IF b.n = 0 THEN NaN
    ELSE FMul(a, Rat(b.d, b.n))

FLess(a, b) == ~a.nan /\ ~b.nan /\ a.n * b.d < b.n * a.d

FLeq(a, b) == ~a.nan /\ ~b.nan /\ a.n * b.d <= b.n * a.d

\* <<floor(n * p / d), (n * p) % d>>, adding n one time after another so
\* that no product leaves the integers of the checker
RECURSIVE ScaleDiv(_, _, _)
ScaleDiv(n, d, p) ==
    IF p = 0 THEN <<0, 0>>
    ELSE LET prev == ScaleDiv(n, d, p - 1)
             r == prev[2] + (n % d)
         IN  IF r >= d THEN <<prev[1] + (n \div d) + 1, r - d>>
             ELSE <<prev[1] + (n \div d), r>>

\* float32 keeps a bounded number of digits: the model rounds a value to the
\* nearest multiple of 1/Precision where the code accumulates an integral
RoundFloat(a) ==
    IF a.nan THEN NaN
    ELSE LET sd == ScaleDiv(a.n, a.d, Precision)
         IN  Rat(IF 2 * sd[2] >= a.d THEN sd[1] + 1 ELSE sd[1], Precision)

RECURSIVE FSum(_, _)
FSum(f, n) == IF n = 0 THEN FInt(0) ELSE FAdd(FSum(f, n - 1), f[n])

RECURSIVE ISum(_, _)
ISum(f, n) == IF n = 0 THEN 0 ELSE ISum(f, n - 1) + f[n]

\* ------------------------------------------------------------------------
\* calculate_prob_particles
\* ------------------------------------------------------------------------
\* score[a, i, b, j] = (q_list[a, i] >= q_list[b, j]); the three reduce_sum
\* calls add it over j, b and i, for every b (b = a included).
ParticleScoreTriangular(q_list, k, a) ==
    Cardinality({t \in (1..k) \X Actions \X (1..k) :
                    t[3] <= t[1] /\ q_list[a][t[1]] >= q_list[t[2]][t[3]]})

ParticleScoreOfOthers(q_list, k, a) ==
    Cardinality({t \in (1..k) \X (Actions \ {a}) \X (1..k) :
                    q_list[a][t[1]] >= q_list[t[2]][t[3]]})

ParticleScore(q_list, k, a) ==
    Cardinality({t \in (1..k) \X Actions \X (1..k) :
                    q_list[a][t[1]] >= q_list[t[2]][t[3]]})

\* tf.reduce_sum(prob), the divisor of compute_prob_max, used as it is
ParticleNormaliser(q_list, k) ==
    FInt(ISum([a \in Actions |-> ParticleScore(q_list, k, a)], NumActions))

compute_prob_max(q_list, k) ==
    LET prob == [a \in Actions |-> ParticleScore(q_list, k, a)]
    IN  [a \in Actions |-> FDiv(FInt(prob[a]), ParticleNormaliser(q_list, k))]

calculate_prob_particles(qs, k) == compute_prob_max(qs, k)

\* ------------------------------------------------------------------------
\* tf.distributions.Normal, tabulated
\* ------------------------------------------------------------------------
\* The standard normal density and distribution function are library code;
\* they are tabulated in hundredths on half-sigma bins (value at the middle
\* of the bin).  A point x is carried as x * (n_trapz - 1), an integer.
PdfTab == <<39, 30, 18, 9, 3, 1>>

CdfTab == <<60, 77, 89, 96, 99, 100>>

TabDen == CdfTab[Len(CdfTab)]

Mirror(bin) == IF bin >= 0 THEN bin ELSE -bin - 1

StdPdf(bin) == IF Mirror(bin) < Len(PdfTab) THEN PdfTab[Mirror(bin) + 1] ELSE 0

StdCdf(bin) ==
    LET up == IF Mirror(bin) < Len(CdfTab) THEN CdfTab[Mirror(bin) + 1] ELSE TabDen
    IN  IF bin >= 0 THEN up ELSE TabDen - up

\* floor(2 * (x - loc) / scale), for scale > 0
ZBin(loc, scale, xs) ==
    (2 * (xs - (n_trapz - 1) * loc)) \div ((n_trapz - 1) * scale)

\* Normal(loc, scale).prob(x) = exp(-z^2/2 - log(scale) - log(sqrt(2 pi)));
\* with scale = 0 the exponent is (-inf) - (-inf) or holds 0/0: NaN.
\* For scale > 0 the value is PdfNum / (TabDen * scale).
ProbIsNaN(loc, scale, xs) == scale = 0

PdfNum(loc, scale, xs) == StdPdf(ZBin(loc, scale, xs))

\* Normal(loc, scale).cdf(x) = Phi((x - loc) / scale); with scale = 0 the
\* argument is -inf (cdf 0), +inf (cdf 1) or 0/0 (NaN).
\* Otherwise the value is CdfNum / TabDen.
CdfIsNaN(loc, scale, xs) == scale = 0 /\ xs = (n_trapz - 1) * loc

CdfNum(loc, scale, xs) ==
    IF scale = 0
    THEN IF xs < (n_trapz - 1) * loc THEN 0 ELSE TabDen
    ELSE StdCdf(ZBin(loc, scale, xs))

\* ------------------------------------------------------------------------
\* calculate_prob
\* ------------------------------------------------------------------------
\* the scale handed to tf.distributions.Normal for action a: sigmas[a] as
\* it was passed in
scale(sigmas, a) == sigmas[a]

lower_limit(qs, sigmas, a) == qs[a] - LimitSigmas * sigmas[a]

upper_limit(qs, sigmas, a) == qs[a] + LimitSigmas * sigmas[a]

\* tf.lin_space(lower, upper, n_trapz)[i], times (n_trapz - 1); i from 0
LinSpace(qs, sigmas, a, i) ==
    lower_limit(qs, sigmas, a) * (n_trapz - 1)
        + i * (upper_limit(qs, sigmas, a) - lower_limit(qs, sigmas, a))

RECURSIVE CdfProduct(_, _, _, _, _)
CdfProduct(qs, sigmas, a, xs, k) ==
    IF k = 0 THEN 1
    ELSE LET rest == CdfProduct(qs, sigmas, a, xs, k - 1)
         IN  IF k = a THEN rest
             ELSE rest * CdfNum(qs[k], scale(sigmas, k), xs)

\* f(x) of integrate: the density of action a times the cdf of the others;
\* the numerator over IntegrandDen, and whether a factor is NaN
IntegrandNum(qs, sigmas, a, xs) ==
    PdfNum(qs[a], scale(sigmas, a), xs) * CdfProduct(qs, sigmas, a, xs, NumActions)

RECURSIVE Power(_, _)
Power(x, n) == IF n = 0 THEN 1 ELSE x * Power(x, n - 1)

IntegrandDen(sigmas, a) == scale(sigmas, a) * Power(TabDen, NumActions)

IntegrandIsNaN(qs, sigmas, a, xs) ==
    \/ ProbIsNaN(qs[a], scale(sigmas, a), xs)
    \/ \E k \in Actions \ {a} : CdfIsNaN(qs[k], scale(sigmas, k), xs)

\* reduce_sum of the numerators of y[lo..hi], split in halves to keep the
\* recursion shallow
RECURSIVE InnerSum(_, _, _, _, _)
InnerSum(qs, sigmas, a, lo, hi) ==
    IF lo > hi THEN 0
    ELSE IF lo = hi THEN IntegrandNum(qs, sigmas, a, LinSpace(qs, sigmas, a, lo))
    ELSE LET m == (lo + hi) \div 2
         IN  InnerSum(qs, sigmas, a, lo, m) + InnerSum(qs, sigmas, a, m + 1, hi)

\* ((upper - lower) / (2 (n_trapz - 1))) * (y[0] + y[-1] + 2 sum(y[1:-1]))
Trapezoid(qs, sigmas, a) ==
    IF \E i \in 0..(n_trapz - 1) :
            IntegrandIsNaN(qs, sigmas, a, LinSpace(qs, sigmas, a, i))
    THEN NaN
    ELSE LET y0 == IntegrandNum(qs, sigmas, a, LinSpace(qs, sigmas, a, 0))
             yn == IntegrandNum(qs, sigmas, a, LinSpace(qs, sigmas, a, n_trapz - 1))
             mid == InnerSum(qs, sigmas, a, 1, n_trapz - 2)
         IN  RoundFloat(
                 FMul(Rat(upper_limit(qs, sigmas, a) - lower_limit(qs, sigmas, a),
                          2 * (n_trapz - 1)),
                      Rat(y0 + yn + 2 * mid, IntegrandDen(sigmas, a))))

\* tf.reduce_sum(p), the divisor of integrate, used as it is
Normaliser(qs, sigmas) ==
    FSum([a \in Actions |-> Trapezoid(qs, sigmas, a)], NumActions)

integrate(qs, sigmas) ==
    LET p == [a \in Actions |-> Trapezoid(qs, sigmas, a)]
    IN  [a \in Actions |-> FDiv(p[a], Normaliser(qs, sigmas))]

calculate_prob(qs, sigmas) == integrate(qs, sigmas)

\* ------------------------------------------------------------------------
\* Networks: the tf variables of a graph, by variable scope
\* ------------------------------------------------------------------------
\* A variable is [scope, rel]: rel stands for its name inside the scope and
\* the order of the integers is the order of the names.  q_func makes the
\* same names in every scope it is called with.
TrainBuilders == {"build_train", "build_train_double", "build_train_particle"}

ActBuilders ==
    {"build_act", "build_act_double", "build_act_particle", "build_act_with_param_noise"}

\* build_train makes its act function with build_act, and so on
Family(b) ==
    IF b \in {"build_train", "build_act"} THEN "gauss"
    ELSE IF b \in {"build_train_double", "build_act_double"} THEN "double"
    ELSE IF b \in {"build_train_particle", "build_act_particle"} THEN "particle"
    ELSE "noise"

LiveScopes(b) ==
    IF Family(b) = "double" THEN {"q_func", "sigma_func"} ELSE {"q_func"}

TargetScope(sc) == IF sc = "q_func" THEN "target_q_func" ELSE "target_sigma_func"

TargetScopes(b) ==
    IF b \in TrainBuilders THEN {TargetScope(sc) : sc \in LiveScopes(b)} ELSE {}

\* number of variables q_func makes in one scope
ScopeSize(b) ==
    IF Family(b) = "gauss" THEN 2 * NumActions
    ELSE IF Family(b) = "particle" THEN NumParticles * NumActions
    ELSE NumActions

\* build_train keeps the sigma head under q_func/sigma: the names after
\* the q head's
IsSigmaVar(b, sc, rel) ==
    \/ Family(b) = "gauss" /\ rel > NumActions
    \/ sc \in {"sigma_func", "target_sigma_func"}

VarDomain(b, sc, rel) == IF IsSigmaVar(b, sc, rel) THEN SigmaVals ELSE QVals

\* tf.get_collection(GLOBAL_VARIABLES, scope): the variables of the scope
\* in the order q_func created them (here: the last name first)
scope_vars(b, sc) ==
    [i \in 1..ScopeSize(b) |-> [scope |-> sc, rel |-> ScopeSize(b) + 1 - i]]

Range(f) == {f[i] : i \in DOMAIN f}

VarsIn(b, scopes) == UNION {Range(scope_vars(b, sc)) : sc \in scopes}

\* values of the variables vs: every mean output 0 and every std output 1
BaseValues(b, vs) ==
    [v \in vs |-> IF IsSigmaVar(b, v.scope, v.rel) THEN 1 ELSE 0]

\* the values that differ from BaseValues in at most m variables
RECURSIVE NearValues(_, _, _)
NearValues(b, vs, m) ==
    IF m = 0 THEN {BaseValues(b, vs)}
    ELSE UNION {{[f EXCEPT ![v] = x] : x \in VarDomain(b, v.scope, v.rel)} :
                   f \in NearValues(b, vs, m - 1), v \in vs}

NetOf(b, scopes, f) ==
    [sc \in scopes |-> [rel \in 1..ScopeSize(b) |-> f[[scope |-> sc, rel |-> rel]]]]

\* the networks of the scopes at most m variables away from BaseValues
NearNets(b, scopes, m) ==
    {NetOf(b, scopes, f) : f \in NearValues(b, VarsIn(b, scopes), m)}

NameBefore(v, w) == v.rel < w.rel

\* sorted(vars, key=lambda v: v.name), within one scope
SortedByName(vs) == SortSeq(vs, NameBefore)

\* zip(xs, ys)
Zip(xs, ys) ==
    [i \in 1..(IF Len(xs) < Len(ys) THEN Len(xs) ELSE Len(ys)) |-> <<xs[i], ys[i]>>]

\* q_func(obs, scope=sc): the tensors of the one observation
QHead(b, n, sc) == [a \in Actions |-> n[sc][a]]

SigmaHead(b, n, sc) ==
    IF Family(b) = "gauss" THEN [a \in Actions |-> n[sc][NumActions + a]]
    ELSE [a \in Actions |-> n[IF sc = "q_func" THEN "sigma_func"
                                ELSE "target_sigma_func"][a]]

\* particle q_func: a list of k tensors, one value per action in each
ParticleHeads(n, sc) ==
    [i \in 1..NumParticles |-> [a \in Actions |-> n[sc][(i - 1) * NumActions + a]]]

\* ------------------------------------------------------------------------
\* The train graphs
\* ------------------------------------------------------------------------
Gamma == Rat(GammaNum, GammaDen)

one_hot(i, depth) == [a \in 1..depth |-> IF a = i THEN 1 ELSE 0]

\* tf.argmax of an integer vector of length n: the first largest entry
ArgMax(f, n) ==
    CHOOSE i \in 1..n :
        /\ \A j \in 1..n : f[j] <= f[i]
        /\ \A j \in 1..(i - 1) : f[j] < f[i]

\* tf.argmax of a float vector
ArgMaxF(f, n) ==
    CHOOSE i \in 1..n :
        /\ \A j \in 1..n : FLeq(f[j], f[i])
        /\ \A j \in 1..(i - 1) : FLess(f[j], f[i])

ReduceMax(f, n) == f[ArgMax(f, n)]

Dot(x, y, n) == ISum([a \in 1..n |-> x[a] * y[a]], n)

FDotUnweighted(p, x, n) == FSum([a \in 1..n |-> FInt(x[a])], n)

FDot(p, x, n) == FSum([a \in 1..n |-> FMul(p[a], FInt(x[a]))], n)

Square(x) == FMul(x, x)

\* sigma_target_mean: tf.reduce_sum(sigmas_tp1 * tf.one_hot(best_target, n), 1)
SigmaTargetMeanMax(q_tp1, sigmas_tp1) == ReduceMax(sigmas_tp1, NumActions)

SigmaTargetMean(q_tp1, sigmas_tp1) ==
    Dot(sigmas_tp1, one_hot(ArgMax(q_tp1, NumActions), NumActions), NumActions)

\* build_train (lines 410-434) and build_train_double (lines 672-696)
GaussGraph(q_t, sigma_t, q_tp1, sigmas_tp1, feed, sigma_weight) ==
    LET q_t_selected == Dot(q_t, one_hot(feed.act, NumActions), NumActions)
        sigma_t_selected == Dot(sigma_t, one_hot(feed.act, NumActions), NumActions)
        prob == calculate_prob(q_tp1, sigmas_tp1)
        q_target_weighted == FDot(prob, q_tp1, NumActions)
        sigma_target_weighted == FDot(prob, sigmas_tp1, NumActions)
        q_target_mean == ReduceMax(q_tp1, NumActions)
        sigma_target_mean == SigmaTargetMean(q_tp1, sigmas_tp1)
        q_target_unmasked ==
            IF feed.weighted THEN q_target_weighted ELSE FInt(q_target_mean)
        sigma_target_unmasked ==
            IF feed.weighted THEN sigma_target_weighted ELSE FInt(sigma_target_mean)
        q_target_masked == FMul(FInt(1 - feed.done), q_target_unmasked)
        sigma_target_masked == FMul(FInt(1 - feed.done), sigma_target_unmasked)
        q_target == FAdd(FInt(feed.rew), FMul(Gamma, q_target_masked))
        sigma_target == FMul(Gamma, sigma_target_masked)
        td_error ==
            FAdd(Square(FSub(FInt(q_t_selected), q_target)),
                 FMul(sigma_weight, Square(FSub(FInt(sigma_t_selected), sigma_target))))
    IN  [kind |-> "gauss",
         prob |-> prob,
         q_target_unmasked |-> q_target_unmasked,
         sigma_target_unmasked |-> sigma_target_unmasked,
         q_target |-> q_target,
         sigma_target |-> sigma_target,
         td_error |-> td_error]

\* tf.contrib.framework.sort(values, axis=0): the k entries in ascending
\* order (direction='ASCENDING' is the default)
sort_none(values) == values

sort(values) == SortSeq(values, FLess)

\* td_error = 0; for i in range(k): td_error += (q_selected_sorted[i] -
\* q_target_sorted[i])
TdErrorOfSquares(q_selected_sorted, q_target_sorted, k) ==
    FSum([i \in 1..k |-> Square(FSub(q_selected_sorted[i], q_target_sorted[i]))], k)

TdErrorParticle(q_selected_sorted, q_target_sorted, k) ==
    FSum([i \in 1..k |-> FSub(q_selected_sorted[i], q_target_sorted[i])], k)

\* build_train_particle (lines 908-949); q_t and q_tp1 are lists of k tensors
ParticleGraph(q_t, q_tp1, feed) ==
    LET k == NumParticles
        action_one_hot == one_hot(feed.act, NumActions)
        q_t_selected == [i \in 1..k |-> FInt(Dot(q_t[i], action_one_hot, NumActions))]
        \* tf.transpose(tf.gather(q_tp1, ...), [1, 2, 0]): (batch, action, particle)
        q_list == [a \in Actions |-> [i \in 1..k |-> q_tp1[i][a]]]
        prob == calculate_prob_particles(q_list, k)
        \* tf.reduce_mean(q_list, axis=1): axis 1 of q_list is the action axis
        means_target ==
            [i \in 1..k |-> Rat(ISum([a \in Actions |-> q_list[a][i]], NumActions),
                                NumActions)]
        \* tf.argmax(means_target, axis=1): an index among the k entries
        best_target == ArgMaxF(means_target, k)
        best_target_one_hot == one_hot(best_target, NumActions)
        q_target_weighted == [i \in 1..k |-> FDot(prob, q_tp1[i], NumActions)]
        q_target_mean ==
            [i \in 1..k |-> FInt(Dot(q_tp1[i], best_target_one_hot, NumActions))]
        q_target_unmasked == IF feed.weighted THEN q_target_weighted ELSE q_target_mean
        q_target_masked == [i \in 1..k |-> FMul(FInt(1 - feed.done), q_target_unmasked[i])]
        q_target == [i \in 1..k |-> FAdd(FInt(feed.rew), FMul(Gamma, q_target_masked[i]))]
        q_selected_sorted == sort(q_t_selected)
        q_target_sorted == sort(q_target)
        td_error == TdErrorParticle(q_selected_sorted, q_target_sorted, k)
    IN  [kind |-> "particle",
         prob |-> prob,
         q_target_unmasked |-> q_target_unmasked,
         q_target |-> q_target,
         q_selected_sorted |-> q_selected_sorted,
         q_target_sorted |-> q_target_sorted,
         td_error |-> td_error]

\* the tensors one run of train computes, from the variables and the feed:
\* q_t from scope q_func (sigma_func), q_tp1 from the target scopes
TrainGraphLiveScope(b, n, feed) ==
    IF Family(b) = "particle"
    THEN ParticleGraph(ParticleHeads(n, "q_func"),
                       ParticleHeads(n, "q_func"), feed)
    ELSE GaussGraph(QHead(b, n, "q_func"), SigmaHead(b, n, "q_func"),
                    QHead(b, n, "q_func"), SigmaHead(b, n, "q_func"),
                    feed,
                    IF Family(b) = "gauss" THEN Rat(SigmaWeightNum, SigmaWeightDen)
                    ELSE FInt(1))

TrainGraph(b, n, feed) ==
    IF Family(b) = "particle"
    THEN ParticleGraph(ParticleHeads(n, "q_func"),
                       ParticleHeads(n, "target_q_func"), feed)
    ELSE GaussGraph(QHead(b, n, "q_func"), SigmaHead(b, n, "q_func"),
                    QHead(b, n, "target_q_func"), SigmaHead(b, n, "target_q_func"),
                    feed,
                    IF Family(b) = "gauss" THEN Rat(SigmaWeightNum, SigmaWeightDen)
                    ELSE FInt(1))

\* ------------------------------------------------------------------------
\* State
\* ------------------------------------------------------------------------
VARIABLES
    pin,        \* input handed to an estimator
    pout,       \* probability vector it returned
    builder,    \* which build_* function made the graph
    tin,        \* feed of one run of the train graph
    tout,       \* tensors that run computed
    net,        \* the tf variables of the networks, by scope and name
    lastOp,     \* last function called on the networks
    preNet,     \* the networks before that call
    syncNet,    \* the target network as the last update_target left it
    eps,        \* the tf variable eps
    noise,      \* the tf variables param_noise_scale and param_noise_threshold
    call,       \* arguments, random draws and result of the last act call
    trial       \* one run of init_variations.py: its arguments, position and objects

probVars == <<pin, pout>>

targetVars == <<tin, tout>>

netVars == <<net, lastOp, preNet, syncNet>>

actVars == <<eps, noise, call>>

vars == <<pin, pout, builder, tin, tout, net, lastOp, preNet, syncNet, eps, noise, call,
          trial>>

None == [kind |-> "none"]

\* ------------------------------------------------------------------------
\* SpecProb: the two estimators applied to drawn inputs
\* ------------------------------------------------------------------------
ParticleInputs(k) ==
    {[kind |-> "particles", k |-> k, qs |-> qs] : qs \in [Actions -> [1..k -> QVals]]}

GaussInputs ==
    {[kind |-> "gauss", qs |-> qs, sigmas |-> sg] :
        qs \in [Actions -> QVals], sg \in [Actions -> SigmaVals]}

Vector(p) == [kind |-> "prob", p |-> p]

InitProb ==
    /\ \/ \E k \in 1..MaxK : pin \in ParticleInputs(k)
       \/ pin \in GaussInputs
    /\ pout = None
    /\ builder = "none"
    /\ tin = None /\ tout = None
    /\ net = None /\ lastOp = "none" /\ preNet = None /\ syncNet = None
    /\ eps = 0 /\ noise = None /\ call = None
    /\ trial = None

ProbParticles ==
    /\ pin.kind = "particles"
    /\ pout.kind = "none"
    /\ pout' = Vector(calculate_prob_particles(pin.qs, pin.k))
    /\ UNCHANGED <<pin, builder, trial, targetVars, netVars, actVars>>

ProbGauss ==
    /\ pin.kind = "gauss"
    /\ pout.kind = "none"
    /\ pout' = Vector(calculate_prob(pin.qs, pin.sigmas))
    /\ UNCHANGED <<pin, builder, trial, targetVars, netVars, actVars>>

NextProb == ProbParticles \/ ProbGauss

SpecProb == InitProb /\ [][NextProb]_vars

\* ------------------------------------------------------------------------
\* Claims on the estimators
\* ------------------------------------------------------------------------
IsProbVector(p) ==
    /\ DOMAIN p = Actions
    /\ \A a \in Actions : ~p[a].nan /\ p[a].n >= 0
    /\ FSum(p, NumActions) = FInt(1)

\* C8: every vector returned by calculate_prob_particles or calculate_prob
\* has one entry per action, every entry is >= 0 and the entries sum to 1.
C8_ProbVector == pout.kind = "prob" => IsProbVector(pout.p)

\* number of pairs (particle i of a, particle j of another action b) with
\* q[a, i] >= q[b, j]
CrossScore(qs, k, a) ==
    Cardinality({t \in (1..k) \X (Actions \ {a}) \X (1..k) :
                    qs[a][t[1]] >= qs[t[2]][t[3]]})

CrossTotal(qs, k) == ISum([a \in Actions |-> CrossScore(qs, k, a)], NumActions)

\* C9: the probability of action a is its count of winning pairs against
\* the particles of the other actions, divided by the sum of these counts.
C9_CrossPairsOnly ==
    (pin.kind = "particles" /\ pout.kind = "prob") =>
        \A a \in Actions :
            pout.p[a] = FDiv(FInt(CrossScore(pin.qs, pin.k, a)),
                             FInt(CrossTotal(pin.qs, pin.k)))

\* every particle of an action has the same value, the values of the
\* actions are pairwise distinct, and top holds the largest
Dominates(qs, k, top) ==
    /\ \A a \in Actions : \A i \in 1..k : qs[a][i] = qs[a][1]
    /\ \A a, b \in Actions : a # b => qs[a][1] # qs[b][1]
    /\ \A a \in Actions : qs[a][1] <= qs[top][1]

FewerParticles(qs, k) == [a \in Actions |-> SubSeq(qs[a], 1, k - 1)]

\* C10: under dominance the probability of every dominated action is
\* smaller with k particles than with k - 1 particles of the same values.
C10_DominatedShrinks ==
    (pin.kind = "particles" /\ pout.kind = "prob" /\ pin.k >= 2) =>
        \A top \in Actions :
            Dominates(pin.qs, pin.k, top) =>
                \A a \in Actions \ {top} :
                    FLess(pout.p[a],
                          calculate_prob_particles(
                              FewerParticles(pin.qs, pin.k), pin.k - 1)[a])

\* C26: in calculate_prob_particles the raw score of every action is at
\* least K * (K + 1) / 2, the normalising sum is strictly positive, every
\* action gets a probability strictly above 0 and, with two actions or
\* more, no action gets probability 1.
C26_ScoresPositive ==
    (pin.kind = "particles" /\ pout.kind = "prob") =>
        /\ \A a \in Actions :
              /\ 2 * ParticleScore(pin.qs, pin.k, a) >= pin.k * (pin.k + 1)
              /\ ~pout.p[a].nan /\ pout.p[a].n > 0
              /\ NumActions >= 2 => pout.p[a] # FInt(1)
        /\ ParticleNormaliser(pin.qs, pin.k).n > 0

\* an action all of whose particles lie below every particle of another
\* action, with two particles or more
C26_Witness ==
    /\ pin.kind = "particles" /\ pout.kind = "prob" /\ pin.k >= 2
    /\ \E a, b \in Actions :
          \A i, j \in 1..pin.k : pin.qs[a][i] < pin.qs[b][j]

\* the sum an estimator divided its input's vector by
DividedBy(in) ==
    IF in.kind = "particles" THEN ParticleNormaliser(in.qs, in.k)
    ELSE Normaliser(in.qs, in.sigmas)

\* C13: both estimators floor the normalising sum before dividing: for
\* every input (all particles equal, zero-std Gaussians included) the
\* divisor is a number strictly above 0, so no division by zero happens.
C13_NormaliserFloored ==
    pout.kind = "prob" =>
        (~DividedBy(pin).nan /\ DividedBy(pin).n > 0)

\* C14: calculate_prob floors the standard deviations: every action, one
\* with sigma = 0 included, is integrated with a strictly positive scale
\* over an interval of non-zero width.
C14_SigmaFloored ==
    (pin.kind = "gauss" /\ pout.kind = "prob") =>
        \A a \in Actions :
            /\ scale(pin.sigmas, a) > 0
            /\ lower_limit(pin.qs, pin.sigmas, a) < upper_limit(pin.qs, pin.sigmas, a)

\* ------------------------------------------------------------------------
\* act of build_act, build_act_double and build_act_particle
\* ------------------------------------------------------------------------
\* eps and the uniform draw are counted in units of 1/EpsUnit; the default
\* update_eps of -1 is -EpsUnit
UpdateEpsVals == {-EpsUnit} \cup (0..EpsUnit)

\* tf.random_uniform(minval=0, maxval=1): a draw in [0, 1)
UniformDraws == 0..(EpsUnit - 1)

\* draws of a standard normal, in whole standard deviations
NoiseVals == (-NoiseMax)..NoiseMax

\* param_noise_threshold in hundredths: the default False is cast to 0.0
UpdateThresholdVals == {-1, 0, ThresholdInit}

ActionOf(rel) == ((rel - 1) % NumActions) + 1

\* the networks an act function is run on: the outputs of every action but
\* the last are 0
ActNets(b, scopes) ==
    {n \in [scopes -> [1..ScopeSize(b) -> QVals \cup SigmaVals]] :
        \A sc \in scopes : \A rel \in 1..ScopeSize(b) :
            /\ n[sc][rel] \in VarDomain(b, sc, rel)
            /\ ActionOf(rel) # NumActions => n[sc][rel] = 0}

\* deterministic_actions
DeterministicAction(b, n) ==
    IF Family(b) = "particle"
    THEN LET q_values == ParticleHeads(n, "q_func")
             means == [a \in Actions |->
                          Rat(ISum([i \in 1..NumParticles |-> q_values[i][a]],
                                   NumParticles), NumParticles)]
         IN  ArgMaxF(means, NumActions)
    ELSE IF Family(b) = "noise"
    THEN ArgMax(QHead(b, n, "perturbed_q_func"), NumActions)
    ELSE ArgMax(QHead(b, n, "q_func"), NumActions)

\* sampled_actions: the argmax of one sample per action, for every draw
SampledActions(b, n) ==
    IF Family(b) = "particle"
    THEN LET q_values == ParticleHeads(n, "q_func")
         IN  {ArgMax([a \in Actions |-> q_values[indexes[a]][a]], NumActions) :
                 indexes \in [Actions -> 1..NumParticles]}
    ELSE LET q_values == QHead(b, n, "q_func")
             sigma_values == SigmaHead(b, n, "q_func")
         IN  {ArgMax([a \in Actions |-> q_values[a] + sigma_values[a] * z[a]],
                     NumActions) : z \in [Actions -> NoiseVals]}

\* eps.assign(tf.cond(update_eps_ph >= 0, update_eps_ph, eps))
update_eps_expr_strict(update_eps, old) == IF update_eps > 0 THEN update_eps ELSE old

update_eps_expr(update_eps, old) == IF update_eps >= 0 THEN update_eps ELSE old

\* eps is read by chose_random in the session.run that assigns it: the read
\* sees the value before or after the assignment
EpsRead(old, new) == {old, new}

\* chose_random: tf.random_uniform(minval=0, maxval=1) < eps
ChoseRandomInclusive(old, new) ==
    {u <= eps_read : u \in UniformDraws, eps_read \in EpsRead(old, new)}

ChoseRandom(old, new) == {u < eps_read : u \in UniformDraws, eps_read \in EpsRead(old, new)}

\* the arguments of act
ActArgs == [stochastic : BOOLEAN, update_eps : UpdateEpsVals, eval_flag : BOOLEAN]

\* the tensors computed from the variables alone: deterministic_actions and
\* the values sampled_actions can take
PolicyActions(b, n) ==
    [deterministic |-> DeterministicAction(b, n), sampled |-> SampledActions(b, n)]

\* act(ob, stochastic, update_eps, eval_flag) of build_act, build_act_double
\* and build_act_particle
ActCall(args, policy) ==
    /\ Family(builder) \in {"gauss", "double", "particle"}
    /\ \E deterministic_action \in {policy.deterministic},
          sampled_action \in policy.sampled,
          random_action \in Actions :
       \E chose_random \in ChoseRandom(eps, update_eps_expr(args.update_eps, eps)) :
          LET output_action ==
                  IF args.eval_flag THEN deterministic_action ELSE sampled_action
              action == IF chose_random THEN random_action ELSE output_action
          IN  /\ eps' = update_eps_expr(args.update_eps, eps)
              /\ call' = [kind |-> "act",
                          stochastic |-> args.stochastic,
                          update_eps |-> args.update_eps,
                          eval_flag |-> args.eval_flag,
                          eps_before |-> eps,
                          chose_random |-> chose_random,
                          random_action |-> random_action,
                          deterministic_action |-> deterministic_action,
                          sampled_action |-> sampled_action,
                          action |-> action]
    /\ UNCHANGED <<noise, builder, trial, probVars, targetVars, netVars>>

Act ==
    /\ builder \in ActBuilders \ {"build_act_with_param_noise"}
    /\ \E policy \in {PolicyActions(builder, net)} :
          \E args \in ActArgs : ActCall(args, policy)

\* ------------------------------------------------------------------------
\* Spec: train and update_target on the live and the target network
\* ------------------------------------------------------------------------
Snapshot(n, scopes) == [kind |-> "net", vars |-> [sc \in scopes |-> n[sc]]]

\* the var_list arguments of compute_gradients: q_vars and sigma_vars of
\* scope q_func (build_train), q_func_vars and sigma_func_vars
\* (build_train_double), q_func_vars (build_train_particle)
TrainVarListAllScopes(b) == VarsIn(b, LiveScopes(b) \cup TargetScopes(b))

TrainVarList(b) == VarsIn(b, LiveScopes(b))

\* the values apply_gradients leaves in the variables of a var_list
Steps(b, vs) == NearValues(b, vs, 1)

Assign(n, vs, f) ==
    [sc \in DOMAIN n |->
        [rel \in DOMAIN n[sc] |->
            IF [scope |-> sc, rel |-> rel] \in vs
            THEN f[[scope |-> sc, rel |-> rel]] ELSE n[sc][rel]]]

\* train(obs_t, action, reward, obs_tp1, done, weight): the two optimizers
\* step the variables of their var_list; the tensors it returns are
\* TrainGraph(builder, net, feed)
Train ==
    /\ builder \in TrainBuilders
    /\ LET var_list == TrainVarList(builder)
       IN  \E f \in Steps(builder, var_list) : net' = Assign(net, var_list, f)
    /\ lastOp' = "train"
    /\ preNet' = None
    /\ UNCHANGED <<syncNet, builder, trial, probVars, targetVars, actVars>>

\* the (var, var_target) pairs of update_target_expr
UpdatePairsUnsorted(b) ==
    UNION {Range(Zip(SortedByName(scope_vars(b, sc)),
                     scope_vars(b, TargetScope(sc)))) : sc \in LiveScopes(b)}

UpdatePairs(b) ==
    UNION {Range(Zip(SortedByName(scope_vars(b, sc)),
                     SortedByName(scope_vars(b, TargetScope(sc))))) :
              sc \in LiveScopes(b)}

\* update_target(): every var_target.assign(var) of the group
UpdateTarget ==
    /\ builder \in TrainBuilders
    /\ \E update_target_expr \in {UpdatePairs(builder)} :
          net' = [sc \in DOMAIN net |->
                    [rel \in DOMAIN net[sc] |->
                        IF \E pr \in update_target_expr :
                              pr[2] = [scope |-> sc, rel |-> rel]
                        THEN LET pr == CHOOSE q \in update_target_expr :
                                          q[2] = [scope |-> sc, rel |-> rel]
                             IN  net[pr[1].scope][pr[1].rel]
                        ELSE net[sc][rel]]]
    /\ lastOp' = "update_target"
    /\ preNet' = Snapshot(net, DOMAIN net)
    /\ syncNet' = Snapshot(net', TargetScopes(builder))
    /\ UNCHANGED <<builder, trial, probVars, targetVars, actVars>>

\* act(ob, stochastic=True, update_eps=-1, eval_flag=False)
DefaultArgs == [stochastic |-> TRUE, update_eps |-> -EpsUnit, eval_flag |-> FALSE]

\* the act function build_train returns, called with its default arguments
ActTraining ==
    /\ builder \in TrainBuilders
    /\ ActCall(DefaultArgs, PolicyActions(builder, net))

Init ==
    /\ builder \in TrainBuilders
    /\ \E live \in NearNets(builder, LiveScopes(builder), 1),
          target \in NearNets(builder, TargetScopes(builder), 1) :
          net = live @@ target
    /\ lastOp = "none" /\ preNet = None /\ syncNet = None
    /\ pin = None /\ pout = None
    /\ tin = None /\ tout = None
    /\ eps = 0 /\ noise = None /\ call = None
    /\ trial = None

Next == Train \/ UpdateTarget \/ ActTraining

Spec == Init /\ [][Next]_vars

\* C2: right after update_target every target variable equals the live
\* variable of the same name, and the live variables are as before the call.
C2_TargetEqualsLive ==
    lastOp = "update_target" =>
        \A sc \in LiveScopes(builder) :
            /\ net[TargetScope(sc)] = net[sc]
            /\ net[sc] = preNet.vars[sc]

\* the call changed the target, and the live variables of a scope are not
\* all equal
C2_Witness ==
    /\ lastOp = "update_target"
    /\ \E sc \in LiveScopes(builder) :
          /\ preNet.vars[TargetScope(sc)] # preNet.vars[sc]
          /\ \E i, j \in DOMAIN net[sc] : net[sc][i] # net[sc][j]

\* C3: between two update_target calls no target variable changes, whatever
\* train and act calls are made: it keeps the value the last update_target
\* gave it.
C3_TargetFrozen ==
    syncNet.kind = "net" =>
        \A sc \in TargetScopes(builder) : net[sc] = syncNet.vars[sc]

\* train has run since the last update_target and moved the live network
\* away from the target, and act has run
C3_Witness ==
    /\ syncNet.kind = "net"
    /\ lastOp = "train"
    /\ call.kind = "act"
    /\ \A sc \in LiveScopes(builder) : net[sc] # net[TargetScope(sc)]

\* ------------------------------------------------------------------------
\* SpecAct: the act functions
\* ------------------------------------------------------------------------
\* perturb_vars("q_func", "perturbed_q_func"): the noise the reset draws,
\* none or one standard deviation on the last action
PerturbNoise ==
    {[a \in Actions |-> 0], [a \in Actions |-> IF a = NumActions THEN NoiseMax ELSE 0]}

\* the networks after tf.cond(reset_ph, perturb_vars("q_func",
\* "perturbed_q_func"), no-op)
PerturbVars(n, reset) ==
    IF reset
    THEN {[n EXCEPT !["perturbed_q_func"] =
              [a \in Actions |-> n["q_func"][a] + perturbation[a]]] :
             perturbation \in PerturbNoise}
    ELSE {n}

\* param_noise_threshold.assign(tf.cond(update_param_noise_threshold_ph >= 0,
\* update_param_noise_threshold_ph, param_noise_threshold))
update_param_noise_threshold_expr(update, old) == IF update >= 0 THEN update ELSE old

\* update_scale: mean_kl < param_noise_threshold multiplies the scale by
\* 1.01, else divides it; mean_kl >= 0 is the effect of a perturbation of
\* adaptive_q_func, whose variables only this branch reads and writes
ScaleSteps(threshold_read) == IF threshold_read > 0 THEN {1, -1} ELSE {-1}

Clip(x, lo, hi) == IF x < lo THEN lo ELSE IF x > hi THEN hi ELSE x

\* act(ob, reset, update_param_noise_threshold, update_param_noise_scale,
\* stochastic, update_eps) of build_act_with_param_noise; q_values_perturbed
\* is read in the session.run that resets perturbed_q_func, before or after
\* the assignment
ActParamNoise ==
    /\ Family(builder) = "noise"
    /\ \E reset \in BOOLEAN :
       \E perturbed \in PerturbVars(net, reset) :
       \E deterministic_action \in {DeterministicAction(builder, net),
                                     DeterministicAction(builder, perturbed)} :
       \E stochastic \in BOOLEAN, update_eps \in UpdateEpsVals,
          update_param_noise_threshold \in UpdateThresholdVals,
          update_param_noise_scale \in BOOLEAN, random_action \in Actions :
       \E chose_random \in ChoseRandom(eps, update_eps_expr(update_eps, eps)) :
          LET threshold ==
                  update_param_noise_threshold_expr(update_param_noise_threshold,
                                                    noise.threshold)
              stochastic_action ==
                  IF chose_random THEN random_action ELSE deterministic_action
              action ==
                  IF stochastic THEN stochastic_action ELSE deterministic_action
          IN  /\ eps' = update_eps_expr(update_eps, eps)
              /\ net' = perturbed
              /\ \E step \in IF update_param_noise_scale
                             THEN UNION {ScaleSteps(threshold_read) :
                                     threshold_read \in EpsRead(noise.threshold, threshold)}
                             ELSE {0} :
                    noise' = [scale |-> Clip(noise.scale + step, -ScaleMax, ScaleMax),
                              threshold |-> threshold]
              /\ call' = [kind |-> "act",
                          stochastic |-> stochastic,
                          update_eps |-> update_eps,
                          eps_before |-> eps,
                          deterministic_action |-> deterministic_action,
                          action |-> action]
    /\ UNCHANGED <<builder, trial, probVars, targetVars, lastOp, preNet, syncNet>>

InitAct ==
    /\ builder \in ActBuilders
    /\ IF Family(builder) = "noise"
       THEN /\ \E n \in ActNets(builder, {"q_func"}) :
                   net = [sc \in {"q_func", "perturbed_q_func"} |-> n["q_func"]]
            /\ noise = [scale |-> 0, threshold |-> ThresholdInit]
       ELSE /\ net \in ActNets(builder, LiveScopes(builder))
            /\ noise = None
    /\ eps = 0
    /\ call = None
    /\ trial = None
    /\ lastOp = "none" /\ preNet = None /\ syncNet = None
    /\ pin = None /\ pout = None
    /\ tin = None /\ tout = None

NextAct == Act \/ ActParamNoise

SpecAct == InitAct /\ [][NextAct]_vars

\* C1: eps starts at 0; an act call with update_eps < 0 leaves eps as it
\* was and a call with update_eps >= 0 sets eps to that value, in the act
\* functions of all four builders.
C1_EpsSentinel ==
    /\ call.kind = "none" => eps = 0
    /\ call.kind = "act" =>
          /\ call.update_eps < 0 => eps = call.eps_before
          /\ call.update_eps >= 0 => eps = call.update_eps

\* a call with a negative update_eps has kept an eps that an earlier call
\* had set above 0
C1_Witness ==
    /\ call.kind = "act"
    /\ call.update_eps < 0
    /\ call.eps_before > 0
    /\ eps = call.eps_before

\* C11: an act call of build_act, build_act_double or build_act_particle
\* with eval_flag = True returns the deterministic action (the argmax of the
\* ensemble mean), whatever value eps holds.
C11_EvalIsGreedy ==
    (call.kind = "act" /\ builder # "build_act_with_param_noise" /\ call.eval_flag) =>
        call.action = call.deterministic_action

\* C12: an act call with stochastic = False returns the argmax action, not
\* a random or a sampled one, in every act builder.
C12_NotStochasticIsArgmax ==
    (call.kind = "act" /\ ~call.stochastic) =>
        call.action = call.deterministic_action

\* C23: in an act call of build_act, build_act_double or build_act_particle
\* every returned action is one of the num_actions actions; while exploring
\* (eval_flag = False) the random action is returned only when the uniform
\* draw was below eps: with eps = 0 the action is the sampled policy action,
\* with eps >= 1 it is the uniformly random action.
C23_EpsGreedy ==
    (call.kind = "act" /\ builder # "build_act_with_param_noise") =>
        /\ call.action \in Actions
        /\ ~call.eval_flag =>
              /\ ~call.chose_random => call.action = call.sampled_action
              /\ call.chose_random => call.action = call.random_action
              /\ (call.eps_before = 0 /\ eps = 0) =>
                    call.action = call.sampled_action
              /\ (call.eps_before >= EpsUnit /\ eps >= EpsUnit) =>
                    call.action = call.random_action

\* an exploring call with eps = 0 whose random draw differs from the
\* sampled action
C23_Witness ==
    /\ call.kind = "act" /\ builder # "build_act_with_param_noise"
    /\ ~call.eval_flag
    /\ call.eps_before = 0 /\ eps = 0
    /\ call.random_action # call.sampled_action
    /\ call.action = call.sampled_action

\* ------------------------------------------------------------------------
\* SpecTarget: one run of a train graph on drawn variables and a drawn feed
\* ------------------------------------------------------------------------
RewVals == {0, 1}

Feeds ==
    [act : Actions, rew : RewVals, done : {0, 1}, weighted : BOOLEAN]

\* live variables that differ from the target variable of the same name
Drifted(b, n) ==
    {v \in LiveScopes(b) \X (1..ScopeSize(b)) : n[v[1]][v[2]] # n[TargetScope(v[1])][v[2]]}

\* the networks drawn: a target network at most two variables away from
\* BaseValues, a live network that is that target network (update_target
\* has just run) or BaseValues
DrawnNets(b) ==
    UNION {{NetOf(b, LiveScopes(b), BaseValues(b, VarsIn(b, LiveScopes(b)))) @@ target,
            [sc \in LiveScopes(b) |-> target[TargetScope(sc)]] @@ target} :
              target \in NearNets(b, TargetScopes(b), 2)}

InitTarget ==
    /\ builder \in TrainBuilders
    /\ net \in DrawnNets(builder)
    /\ tin \in Feeds
    /\ tout = None
    /\ pin = None /\ pout = None
    /\ lastOp = "none" /\ preNet = None /\ syncNet = None
    /\ eps = 0 /\ noise = None /\ call = None
    /\ trial = None

RunTrainGraph ==
    /\ tout.kind = "none"
    /\ tout' = TrainGraph(builder, net, tin)
    /\ UNCHANGED <<tin, builder, trial, probVars, netVars, actVars>>

NextTarget == RunTrainGraph

SpecTarget == InitTarget /\ [][NextTarget]_vars

\* ------------------------------------------------------------------------
\* Claims on the value targets
\* ------------------------------------------------------------------------
Ran == tout.kind # "none"

\* the K (particle) or single (Gaussian) value targets of the run
Targets == IF tout.kind = "particle" THEN tout.q_target ELSE <<tout.q_target>>

Unmasked ==
    IF tout.kind = "particle" THEN tout.q_target_unmasked
    ELSE <<tout.q_target_unmasked>>

\* C4: every value target is reward + gamma * (1 - done) * target_value:
\* the reward alone when done = 1, reward + gamma * target_value when done = 0.
C4_TargetIsMaskedBackup ==
    Ran => \A i \in DOMAIN Targets :
        /\ tin.done = 1 => Targets[i] = FInt(tin.rew)
        /\ tin.done = 0 => Targets[i] = FAdd(FInt(tin.rew), FMul(Gamma, Unmasked[i]))

\* next-state values and probability of optimality, from the target scopes
NextQ == QHead(builder, net, "target_q_func")

NextSigma == SigmaHead(builder, net, "target_q_func")

NextParticles == [a \in Actions |-> [i \in 1..NumParticles |->
                    net["target_q_func"][(i - 1) * NumActions + a]]]

NextStateProb ==
    IF Family(builder) = "particle"
    THEN calculate_prob_particles(NextParticles, NumParticles)
    ELSE calculate_prob(NextQ, NextSigma)

RECURSIVE Expectation(_, _, _)
Expectation(p, v, as) ==
    IF as = {} THEN FInt(0)
    ELSE LET a == CHOOSE x \in as : TRUE
         IN  FAdd(FMul(p[a], FInt(v[a])), Expectation(p, v, as \ {a}))

\* C5: with weighted_update the unmasked target is sum_a p_a * v_a, p and v
\* taken from the target network; per particle k with the same p.
C5_WeightedTarget ==
    (Ran /\ tin.weighted) =>
        IF tout.kind = "particle"
        THEN \A i \in 1..NumParticles :
                tout.q_target_unmasked[i] =
                    Expectation(NextStateProb, [a \in Actions |-> NextParticles[a][i]], Actions)
        ELSE tout.q_target_unmasked = Expectation(NextStateProb, NextQ, Actions)

C5_Witness ==
    /\ Ran /\ tin.weighted
    /\ Drifted(builder, net) # {}
    /\ \A a \in Actions : ~NextStateProb[a].nan
    /\ \E a, b \in Actions : FLess(NextStateProb[a], NextStateProb[b])
    /\ \E i \in DOMAIN Unmasked : Unmasked[i].n # 0 /\ Unmasked[i].d # 1

\* the action whose next-state particles have the highest mean
BestMeanAction ==
    CHOOSE a \in Actions :
        /\ \A b \in Actions :
              ISum(NextParticles[b], NumParticles) <= ISum(NextParticles[a], NumParticles)
        /\ \A b \in 1..(a - 1) :
              ISum(NextParticles[b], NumParticles) < ISum(NextParticles[a], NumParticles)

\* C6: without weighted_update every particle k's unmasked target is its
\* own value of the action with the highest particle mean.
C6_GreedyParticleTarget ==
    (Ran /\ tout.kind = "particle" /\ ~tin.weighted) =>
        \A i \in 1..NumParticles :
            tout.q_target_unmasked[i] = FInt(NextParticles[BestMeanAction][i])

\* the first action with the highest next-state mean
BestAction ==
    CHOOSE a \in Actions :
        /\ \A b \in Actions : NextQ[b] <= NextQ[a]
        /\ \A b \in 1..(a - 1) : NextQ[b] < NextQ[a]

\* C7: without weighted_update the Gaussian mean target is the value of the
\* action with the highest next-state mean and the std target is the std of
\* that action; both are scaled by gamma * (1 - done), only the mean target
\* has the reward added.
C7_GreedyGaussTarget ==
    (Ran /\ tout.kind = "gauss" /\ ~tin.weighted) =>
        /\ tout.q_target_unmasked = FInt(NextQ[BestAction])
        /\ tout.sigma_target_unmasked = FInt(NextSigma[BestAction])
        /\ tout.q_target =
               FAdd(FInt(tin.rew),
                    FMul(FMul(Gamma, FInt(1 - tin.done)), FInt(NextQ[BestAction])))
        /\ tout.sigma_target =
               FMul(FMul(Gamma, FInt(1 - tin.done)), FInt(NextSigma[BestAction]))

\* the stds of the next state differ between the argmax action and another
\* one, the run is not masked and the reward is not 0
C7_Witness ==
    /\ Ran /\ tout.kind = "gauss" /\ ~tin.weighted
    /\ tin.done = 0 /\ tin.rew # 0
    /\ \E b \in Actions : NextSigma[b] # NextSigma[BestAction]

LeastNextQ == CHOOSE v \in Range(NextQ) : \A a \in Actions : v <= NextQ[a]

\* C28: in build_train and build_train_double, when the probabilities of the
\* next state are a probability vector the weighted mean target lies between
\* the smallest and the largest next-state mean; the weighted target never
\* exceeds the greedy target of the same transition, and with done = 0 no
\* target exceeds reward + gamma * max_a v_a.
C28_WeightedWithinRange ==
    (Ran /\ tout.kind = "gauss") =>
        /\ (tin.weighted /\ IsProbVector(tout.prob)) =>
              /\ FLeq(FInt(LeastNextQ), tout.q_target_unmasked)
              /\ FLeq(tout.q_target_unmasked, FInt(NextQ[BestAction]))
        /\ tin.weighted => ~FLess(FInt(NextQ[BestAction]), tout.q_target_unmasked)
        /\ tin.done = 0 =>
              ~FLess(FAdd(FInt(tin.rew), FMul(Gamma, FInt(NextQ[BestAction]))),
                     tout.q_target)

\* a weighted target strictly between the smallest and the largest mean
C28_Witness ==
    /\ Ran /\ tout.kind = "gauss" /\ tin.weighted /\ tin.done = 0
    /\ IsProbVector(tout.prob)
    /\ FLess(FInt(LeastNextQ), tout.q_target_unmasked)
    /\ FLess(tout.q_target_unmasked, FInt(NextQ[BestAction]))

\* ------------------------------------------------------------------------
\* Claims on the TD error
\* ------------------------------------------------------------------------
\* the current estimates of the action taken and the targets they are
\* differenced with, term by term
Estimates ==
    IF tout.kind = "particle" THEN tout.q_selected_sorted
    ELSE <<FInt(QHead(builder, net, "q_func")[tin.act]),
           FInt(SigmaHead(builder, net, "q_func")[tin.act])>>

EstimateTargets ==
    IF tout.kind = "particle" THEN tout.q_target_sorted
    ELSE <<tout.q_target, tout.sigma_target>>

SigmaWeight == Rat(SigmaWeightNum, SigmaWeightDen)

\* C15: the TD error handed to the Huber loss is a sum of squared
\* differences, one per particle or parameter: it is >= 0, it is 0 only when
\* every estimate equals its target, and in build_train it is
\* (q - q_target)^2 + sigma_weight * (sigma - sigma_target)^2.
C15_TdErrorSumOfSquares ==
    (Ran /\ \A i \in DOMAIN EstimateTargets : ~EstimateTargets[i].nan) =>
        /\ FLeq(FInt(0), tout.td_error)
        /\ tout.td_error = FInt(0) =>
               \A i \in DOMAIN Estimates : Estimates[i] = EstimateTargets[i]
        /\ builder = "build_train" =>
               tout.td_error =
                   FAdd(Square(FSub(Estimates[1], EstimateTargets[1])),
                        FMul(SigmaWeight, Square(FSub(Estimates[2], EstimateTargets[2]))))

\* ------------------------------------------------------------------------
\* SpecParticle: one run of the train graph of build_train_particle, the
\* live network up to two variables and the target network up to one
\* variable away from BaseValues
\* ------------------------------------------------------------------------
InitParticle ==
    /\ builder = "build_train_particle"
    /\ \E live \in NearNets(builder, LiveScopes(builder), 2),
          target \in NearNets(builder, TargetScopes(builder), 1) :
          net = live @@ target
    /\ tin \in Feeds
    /\ tout = None
    /\ pin = None /\ pout = None
    /\ lastOp = "none" /\ preNet = None /\ syncNet = None
    /\ eps = 0 /\ noise = None /\ call = None
    /\ trial = None

SpecParticle == InitParticle /\ [][NextTarget]_vars

\* q_t_selected: the value of the action taken, for each particle in the
\* order of the network's outputs
SelectedValues ==
    [i \in 1..NumParticles |-> FInt(ParticleHeads(net, "q_func")[i][tin.act])]

Count(seq, v) == Cardinality({i \in DOMAIN seq : seq[i] = v})

\* sorted holds the entries of values, smallest first
IsAscendingOrderOf(sorted, values) ==
    /\ DOMAIN sorted = DOMAIN values
    /\ \A i \in DOMAIN sorted : Count(sorted, sorted[i]) = Count(values, sorted[i])
    /\ \A i \in DOMAIN sorted : i > 1 => FLeq(sorted[i - 1], sorted[i])

\* C16: the K selected current values and the K targets are each sorted
\* ascending on their own, and the i-th smallest current value is
\* differenced with the i-th smallest target.
C16_SortedPairing ==
    (Ran /\ tout.kind = "particle") =>
        /\ IsAscendingOrderOf(tout.q_selected_sorted, SelectedValues)
        /\ IsAscendingOrderOf(tout.q_target_sorted, tout.q_target)
        /\ tout.td_error =
               FSum([i \in 1..NumParticles |->
                        FSub(tout.q_selected_sorted[i], tout.q_target_sorted[i])],
                    NumParticles)

\* C25: the TD error of build_train_particle is the sum of the K selected
\* current values minus the sum of the K targets, both taken in the order
\* of the particles: a signed sum that the two sorts do not change, and 0
\* exactly when the two sums are equal.
C25_SignedSum ==
    (Ran /\ tout.kind = "particle") =>
        /\ tout.td_error =
               FSub(FSum(SelectedValues, NumParticles),
                    FSum(tout.q_target, NumParticles))
        /\ (FSum(SelectedValues, NumParticles) = FSum(tout.q_target, NumParticles))
               <=> tout.td_error = FInt(0)

\* a negative TD error of a run in which the sort reordered the current
\* values
C25_Witness ==
    /\ Ran /\ tout.kind = "particle"
    /\ FLess(tout.td_error, FInt(0))
    /\ tout.q_selected_sorted # SelectedValues

\* the current values fall where the targets rise with the particle index:
\* the two sorts permute differently
C16_Witness ==
    /\ Ran /\ tout.kind = "particle"
    /\ \E i, j \in 1..NumParticles :
          /\ i < j
          /\ FLess(SelectedValues[j], SelectedValues[i])
          /\ FLess(tout.q_target[i], tout.q_target[j])

\* ------------------------------------------------------------------------
\* init_variations.py: the tables of the script
\* ------------------------------------------------------------------------
policy_dict ==
    ("eps-greedy" :> "EpsGreedy") @@ ("boltzmann" :> "Boltzmann") @@
    ("weighted" :> "WeightedPolicy") @@ ("boot" :> "BootPolicy") @@
    ("vpi" :> "VPIPolicy") @@ ("ucb" :> "UCBPolicy")

init_configs == {"eq-spaced", "q-max", "borders"}

alg_to_policies ==
    ("particle-ql" :> {"ucb"}) @@ ("boot-ql" :> {"boot", "weighted"}) @@
    ("ql" :> {"boltzmann", "eps-greedy"})

\* env -> <<q_min, q_max>>
env_to_qs ==
    ("KnightQuest" :> <<-20, 20>>) @@ ("Taxi" :> <<0, 15>>) @@
    ("Loop" :> <<0, 40>>) @@ ("Chain" :> <<0, 400>>) @@
    ("RiverSwim" :> <<0, 150000>>) @@ ("SixArms" :> <<0, 200000>>)

\* the names experiment() has a branch for
SupportedEnvs == {"Taxi", "Chain", "Loop", "RiverSwim", "SixArms", "KnightQuest"}

\* envs of the --delayed-q sweep
DelayedEnvs == {"RiverSwim", "SixArms", "Taxi", "KnightQuest", "Chain"}

\* --name: a name of the script, or one it does not know
EnvNames == SupportedEnvs \cup {"Gridworld"}

\* the algorithm and policy names the command line and the sweeps know
AlgorithmNames == {"particle-ql", "delayed-ql", "ql", "boot-ql"}

PolicyNames == DOMAIN policy_dict

\* --q-min and --q-max as the parser defaults them
DefaultQs == <<0, 40>>

\* the policies experiment() lets particle-ql run with
ParticlePoliciesNoUcb == {"weighted", "vpi"}

ParticlePolicies == {"weighted", "vpi", "ucb"}

\* ------------------------------------------------------------------------
\* The priors
\* ------------------------------------------------------------------------
\* np.linspace(start, stop, num, endpoint=False)
linspace_open(start, stop, num) ==
    [i \in 1..num |-> Rat(start * num + (i - 1) * (stop - start), num)]

\* np.linspace(start, stop, num): num = 1 gives <<start>>
linspace(start, stop, num) ==
    [i \in 1..num |->
        IF num = 1 THEN FInt(start)
        ELSE Rat(start * (num - 1) + (i - 1) * (stop - start), num - 1)]

\* np.tile(value, reps)
tile(value, reps) == [i \in 1..reps |-> FInt(value)]

\* the particles init_variations_experiment builds for an init config
Prior(init, qs, n_particles) ==
    IF init = "eq-spaced" THEN linspace(qs[1], qs[2], n_particles)
    ELSE IF init = "q-max" THEN tile(qs[2], n_particles)
    ELSE tile(qs[1], n_particles \div 2)
            \o tile(qs[2], n_particles - (n_particles \div 2))

\* np.random.randn, in whole standard deviations
RandnDraws == (-RandnMax)..RandnMax

\* alpha runs from 0 to max_alpha = 1 in steps of delta_alpha = 1/AlphaSteps
Alphas == {Rat(i, AlphaSteps) : i \in 0..AlphaSteps}

\* alpha * eq_spaced_particles + (1 - alpha) * noise_particles, where
\* noise_particles = randn * sigma + mu
NoisyPrior(qs, n_particles, alpha, randn) ==
    LET mu == Rat(qs[2] + qs[1], 2)
        sigma == FInt(qs[2] - qs[1])
        eq_spaced_particles == linspace(qs[1], qs[2], n_particles)
    IN  [i \in 1..n_particles |->
            FAdd(FMul(alpha, eq_spaced_particles[i]),
                 FMul(FSub(FInt(1), alpha),
                      FAdd(FMul(FInt(randn[i]), sigma), mu)))]

\* ------------------------------------------------------------------------
\* SpecExperiment: one run of the script, from the sweep to the trial
\* ------------------------------------------------------------------------
dqnVars == <<builder, probVars, targetVars, netVars, actVars>>

NewTrial(sweep, name, n_approximators) ==
    [pc |-> "main", sweep |-> sweep, name |-> name,
     n_approximators |-> n_approximators,
     called |-> FALSE, algorithm |-> "", policy_arg |-> "", policy |-> "",
     init |-> "", particles |-> <<>>,
     warned |-> FALSE, mdp |-> FALSE, pi |-> "none", agent |-> "none",
     core |-> FALSE, error |-> "none",
     particle_bound |-> -1, Q |-> <<>>, quantile |-> <<>>]

\* experiment(algorithm, name, ..., policy, n_approximators, ..., particles)
\* is entered
Called(t, algorithm, name, policy, n_approximators, particles) ==
    [t EXCEPT !.pc = "experiment", !.called = TRUE,
              !.algorithm = algorithm, !.name = name,
              !.policy_arg = policy, !.policy = policy,
              !.n_approximators = n_approximators, !.particles = particles]

InitExperiment ==
    /\ \E sweep \in {"init-variations", "add-noise", "delayed-q", "direct"},
          name \in EnvNames, n \in 1..MaxK :
          trial = NewTrial(sweep, name, n)
    /\ builder = "none"
    /\ pin = None /\ pout = None
    /\ tin = None /\ tout = None
    /\ net = None /\ lastOp = "none" /\ preNet = None /\ syncNet = None
    /\ eps = 0 /\ noise = None /\ call = None

\* one trial of the --init-variations sweep (update_type does not reach the
\* prior and is left out)
init_variations_experiment ==
    /\ trial.pc = "main" /\ trial.sweep = "init-variations"
    /\ IF trial.name \notin DOMAIN env_to_qs
       THEN trial' = [trial EXCEPT !.pc = "raised", !.error = "KeyError"]
       ELSE \E policy \in alg_to_policies["particle-ql"], init \in init_configs :
               trial' = Called([trial EXCEPT !.init = init],
                               "particle-ql", trial.name, policy,
                               trial.n_approximators,
                               Prior(init, env_to_qs[trial.name],
                                     trial.n_approximators))
    /\ UNCHANGED dqnVars

\* one trial of the --add-noise sweep
add_noise_experiment ==
    /\ trial.pc = "main" /\ trial.sweep = "add-noise"
    /\ IF trial.name \notin DOMAIN env_to_qs
       THEN trial' = [trial EXCEPT !.pc = "raised", !.error = "KeyError"]
       ELSE \E policy \in alg_to_policies["particle-ql"], alpha \in Alphas,
               randn \in [1..trial.n_approximators -> RandnDraws] :
               trial' = Called(trial, "particle-ql", trial.name, policy,
                               trial.n_approximators,
                               NoisyPrior(env_to_qs[trial.name],
                                          trial.n_approximators, alpha, randn))
    /\ UNCHANGED dqnVars

\* one trial of the --delayed-q sweep: --name is used when it is one of the
\* sweep's envs
delayed_q_experiment ==
    /\ trial.pc = "main" /\ trial.sweep = "delayed-q"
    /\ \E env \in (IF trial.name \in DelayedEnvs THEN {trial.name} ELSE DelayedEnvs) :
          trial' = Called(trial, "delayed-ql", env, "delayed", 1, tile(1, 10))
    /\ UNCHANGED dqnVars

\* experiment() called with names of the caller's choice
CallExperiment ==
    /\ trial.pc = "main" /\ trial.sweep = "direct"
    /\ \E algorithm \in AlgorithmNames, policy \in PolicyNames :
          trial' = Called(trial, algorithm, trial.name, policy,
                          trial.n_approximators,
                          linspace(DefaultQs[1], DefaultQs[2], trial.n_approximators))
    /\ UNCHANGED dqnVars

\* the MDP block of experiment()
MakeMdp ==
    /\ trial.pc = "experiment"
    /\ trial' = IF trial.name \in SupportedEnvs
                THEN [trial EXCEPT !.pc = "agent", !.mdp = TRUE]
                ELSE [trial EXCEPT !.pc = "raised", !.error = "NotImplementedError"]
    /\ UNCHANGED dqnVars

\* the table of ParticleQLearning after construction: approximator i holds
\* init_values[i] for every state and action
InitTable(init_values, n_approximators) ==
    [i \in 1..n_approximators |-> [a \in Actions |-> init_values[i]]]

\* quantiles[p] = p * 1. / (n_approximators - 1); the first p with
\* quantiles[p] >= 1 - delta
particle_bound(n_approximators) ==
    CHOOSE p \in 0..(n_approximators - 1) :
        /\ p * DeltaDen >= (DeltaDen - DeltaNum) * (n_approximators - 1)
        /\ \A r \in 0..(p - 1) :
              r * DeltaDen < (DeltaDen - DeltaNum) * (n_approximators - 1)

\* the particle-ql branch of the agent block
ParticleAgent(t) ==
    LET warned == t.policy \notin ParticlePolicies
        policy == IF warned THEN "weighted" ELSE t.policy
        made == [t EXCEPT !.warned = warned, !.policy = policy,
                          !.pi = policy_dict[policy],
                          !.agent = "ParticleQLearning",
                          !.Q = InitTable(t.particles, t.n_approximators)]
    IN  IF policy # "ucb" THEN [made EXCEPT !.pc = "core"]
        ELSE IF t.n_approximators = 1
        THEN [made EXCEPT !.pc = "raised", !.error = "ZeroDivisionError"]
        ELSE [made EXCEPT !.pc = "core",
                          !.particle_bound = particle_bound(t.n_approximators)]

\* the agent block of experiment(): an algorithm that is neither particle-ql
\* nor delayed-ql matches no branch and binds neither agent nor pi
MakeAgent ==
    /\ trial.pc = "agent"
    /\ trial' = IF trial.algorithm = "particle-ql" THEN ParticleAgent(trial)
                ELSE IF trial.algorithm = "delayed-ql"
                THEN [trial EXCEPT !.pc = "core", !.agent = "DelayedQLearning",
                                   !.pi = "DelayedQLearning"]
                ELSE [trial EXCEPT !.pc = "core"]
    /\ UNCHANGED dqnVars

\* core = Core(agent, mdp, callbacks), with collect_qs = False
MakeCore ==
    /\ trial.pc = "core"
    /\ trial' = IF trial.agent = "none"
                THEN [trial EXCEPT !.pc = "raised", !.error = "UnboundLocalError"]
                ELSE [trial EXCEPT !.pc = "loop", !.core = TRUE]
    /\ UNCHANGED dqnVars

\* quantile_func(state, quantile), as the UCB policy calls it while the
\* trial runs: qs[particle_bound, :]
quantile_func ==
    /\ trial.pc = "loop" /\ trial.pi = "UCBPolicy"
    /\ trial.quantile = <<>>
    /\ trial' = [trial EXCEPT !.quantile =
                    [a \in Actions |-> trial.Q[trial.particle_bound + 1][a]]]
    /\ UNCHANGED dqnVars

NextExperiment ==
    \/ init_variations_experiment
    \/ add_noise_experiment
    \/ delayed_q_experiment
    \/ CallExperiment
    \/ MakeMdp
    \/ MakeAgent
    \/ MakeCore
    \/ quantile_func

SpecExperiment == InitExperiment /\ [][NextExperiment]_vars

\* ------------------------------------------------------------------------
\* Claims on experiment() and the priors
\* ------------------------------------------------------------------------
\* C17: experiment() called with an algorithm that is neither particle-ql
\* nor delayed-ql, or with an environment it has no branch for, raises
\* NotImplementedError and nothing else, and creates no agent and no Core.
C17_UnsupportedRaises ==
    (/\ trial.called
     /\ \/ trial.algorithm \notin {"particle-ql", "delayed-ql"}
        \/ trial.name \notin {"Taxi", "Chain", "Loop", "RiverSwim", "SixArms",
                              "KnightQuest"}) =>
        /\ trial.agent = "none" /\ ~trial.core
        /\ trial.pc # "loop"
        /\ trial.error \in {"none", "NotImplementedError"}

\* C18: with particle-ql, once the agent block has run: a policy name
\* outside {weighted, vpi, ucb} has raised a warning, is replaced by weighted
\* and the trial goes on with a WeightedPolicy; a name inside the set is
\* kept as passed and no warning is raised.
C18_PolicyFallback ==
    (trial.called /\ trial.algorithm = "particle-ql" /\ trial.agent # "none") =>
        IF trial.policy_arg \notin {"weighted", "vpi", "ucb"}
        THEN /\ trial.warned
             /\ trial.policy = "weighted" /\ trial.pi = "WeightedPolicy"
             /\ trial.error = "none" /\ trial.pc \in {"core", "loop"}
        ELSE /\ ~trial.warned
             /\ trial.policy = trial.policy_arg

\* a trial that was passed the boot policy runs with a Core
C18_Witness ==
    /\ trial.called /\ trial.algorithm = "particle-ql"
    /\ trial.policy_arg = "boot" /\ trial.warned
    /\ trial.pc = "loop" /\ trial.core

\* the trial init_variations_experiment has built the particles for
PriorBuilt == trial.sweep = "init-variations" /\ trial.called

QMin == FInt(env_to_qs[trial.name][1])

QMaxOfEnv == FInt(env_to_qs[trial.name][2])

\* xs starts at lo, ends at hi and has equal gaps
EvenlySpaced(xs, lo, hi) ==
    /\ xs[1] = lo /\ xs[Len(xs)] = hi
    /\ \A i \in 2..(Len(xs) - 1) :
          FSub(xs[i + 1], xs[i]) = FSub(xs[i], xs[i - 1])

AllAt(xs, from, to, v) == \A i \in from..to : xs[i] = v

\* q-max: K copies of q_max; borders: floor(K/2) particles at q_min, then
\* the other K - floor(K/2) at q_max
OtherPriorsAsStated ==
    LET K == trial.n_approximators
    IN  /\ Len(trial.particles) = K
        /\ trial.init = "q-max" => AllAt(trial.particles, 1, K, QMaxOfEnv)
        /\ trial.init = "borders" =>
              /\ AllAt(trial.particles, 1, K \div 2, QMin)
              /\ AllAt(trial.particles, (K \div 2) + 1, K, QMaxOfEnv)

\* C19 as stated: for every K >= 1 the prior has K particles; eq-spaced is
\* K values evenly spaced from q_min to q_max, both included; q-max is K
\* copies of q_max; borders is floor(K/2) at q_min, then the rest at q_max.
C19_PriorAsStated ==
    PriorBuilt =>
        /\ OtherPriorsAsStated
        /\ trial.init = "eq-spaced" => EvenlySpaced(trial.particles, QMin, QMaxOfEnv)

\* C19 amended: as stated, but eq-spaced reaches from q_min to q_max for
\* K >= 2 only; for K = 1 it is the single particle q_min.
C19_PriorAmended ==
    PriorBuilt =>
        /\ OtherPriorsAsStated
        /\ trial.init = "eq-spaced" =>
              IF trial.n_approximators = 1 THEN trial.particles = <<QMin>>
              ELSE EvenlySpaced(trial.particles, QMin, QMaxOfEnv)

\* an eq-spaced prior with a particle strictly between the borders
C19_Witness ==
    /\ PriorBuilt /\ trial.init = "eq-spaced"
    /\ trial.n_approximators >= 3
    /\ FLess(QMin, trial.particles[2]) /\ FLess(trial.particles[2], QMaxOfEnv)

\* the particles of action a, smallest first
SortedParticles(a) ==
    sort([i \in 1..trial.n_approximators |-> trial.Q[i][a]])

\* C20: particle_bound is the smallest p in 0..K-1 with
\* p / (K - 1) >= 1 - delta, and quantile_func returns for every action the
\* particle at that index of the action's particles in ascending order.
C20_QuantileOfSorted ==
    /\ (trial.called /\ trial.pi = "UCBPolicy" /\ trial.pc \in {"core", "loop"}) =>
          LET K == trial.n_approximators
              p == trial.particle_bound
          IN  /\ p \in 0..(K - 1)
              /\ 10 * p >= 9 * (K - 1)
              /\ \A r \in 0..(p - 1) : 10 * r < 9 * (K - 1)
    /\ (trial.called /\ trial.quantile # <<>>) =>
          \A a \in Actions :
              trial.quantile[a] = SortedParticles(a)[trial.particle_bound + 1]

\* ------------------------------------------------------------------------
\* SpecSym: calculate_prob_particles on an input and on the same input with
\* two particles of an action or two actions exchanged
\* ------------------------------------------------------------------------
Swap(f, i, j) ==
    [x \in DOMAIN f |-> IF x = i THEN f[j] ELSE IF x = j THEN f[i] ELSE f[x]]

InitSym ==
    /\ \E k \in 1..NumParticles : pin \in ParticleInputs(k)
    /\ pout = None
    /\ builder = "none"
    /\ tin = None /\ tout = None
    /\ net = None /\ lastOp = "none" /\ preNet = None /\ syncNet = None
    /\ eps = 0 /\ noise = None /\ call = None
    /\ trial = None

\* moved[x] is the action of the input whose particles action x holds in the
\* exchanged input
Both(what, qs, exchanged, moved) ==
    [kind |-> "sym", what |-> what, moved |-> moved,
     p |-> calculate_prob_particles(qs, pin.k),
     exchanged |-> calculate_prob_particles(exchanged, pin.k)]

ProbSwapParticles ==
    /\ pin.kind = "particles" /\ pout.kind = "none"
    /\ \E a \in Actions, i, j \in 1..pin.k :
          /\ i < j
          /\ pout' = Both(<<"particles", a, i, j>>,
                          pin.qs, [pin.qs EXCEPT ![a] = Swap(pin.qs[a], i, j)],
                          [x \in Actions |-> x])
    /\ UNCHANGED <<pin, builder, trial, targetVars, netVars, actVars>>

ProbSwapActions ==
    /\ pin.kind = "particles" /\ pout.kind = "none"
    /\ \E a, b \in Actions :
          /\ a <= b
          /\ pout' = Both(<<"actions", a, b>>, pin.qs, Swap(pin.qs, a, b),
                          Swap([x \in Actions |-> x], a, b))
    /\ UNCHANGED <<pin, builder, trial, targetVars, netVars, actVars>>

NextSym == ProbSwapParticles \/ ProbSwapActions

SpecSym == InitSym /\ [][NextSym]_vars

SameParticles(xs, ys) == \A i \in DOMAIN xs : Count(xs, xs[i]) = Count(ys, xs[i])

\* C27: calculate_prob_particles does not change when particles of an action
\* are exchanged, exchanging actions exchanges their probabilities, and
\* when all actions hold the same multiset of particles every probability
\* is 1 / A.
C27_Symmetric ==
    pout.kind = "sym" =>
        /\ \A x \in Actions : pout.exchanged[x] = pout.p[pout.moved[x]]
        /\ (\A a, b \in Actions : SameParticles(pin.qs[a], pin.qs[b])) =>
              \A a \in Actions : pout.p[a] = Rat(1, NumActions)

\* two actions of different probability were exchanged
C27_Witness ==
    /\ pout.kind = "sym"
    /\ \E a \in Actions : pout.moved[a] # a /\ pout.p[a] # pout.p[pout.moved[a]]

\* ------------------------------------------------------------------------
\* compute_scores(dataset, gamma)
\* ------------------------------------------------------------------------
\* a transition keeps its reward dataset[i][2] and its last field
\* dataset[i][-1]
Datasets ==
    UNION {[1..n -> [rew : RewVals, last : BOOLEAN]] : n \in 0..MaxSteps}

\* the locals after the first i passes of the for loop; as ScoreLoop but
\* episode_steps is not set back to 0 at an episode end
RECURSIVE ScoreLoopNoReset(_, _, _)
ScoreLoopNoReset(dataset, gamma, i) ==
    IF i = 0
    THEN [scores |-> <<>>, disc_scores |-> <<>>, lens |-> <<>>,
          score |-> FInt(0), disc_score |-> FInt(0),
          episode_steps |-> 0, n_episodes |-> 0]
    ELSE LET l == ScoreLoopNoReset(dataset, gamma, i - 1)
             score == FAdd(l.score, FInt(dataset[i].rew))
             disc_score ==
                 FAdd(l.disc_score,
                      FMul(FInt(dataset[i].rew),
                           Rat(Power(gamma.n, l.episode_steps),
                               Power(gamma.d, l.episode_steps))))
             episode_steps == l.episode_steps + 1
         IN  IF dataset[i].last
             THEN [scores |-> Append(l.scores, score),
                   disc_scores |-> Append(l.disc_scores, disc_score),
                   lens |-> Append(l.lens, episode_steps),
                   score |-> FInt(0), disc_score |-> FInt(0),
                   episode_steps |-> episode_steps, n_episodes |-> l.n_episodes + 1]
             ELSE [l EXCEPT !.score = score, !.disc_score = disc_score,
                            !.episode_steps = episode_steps]

\* the locals after the first i passes of the for loop
RECURSIVE ScoreLoop(_, _, _)
ScoreLoop(dataset, gamma, i) ==
    IF i = 0
    THEN [scores |-> <<>>, disc_scores |-> <<>>, lens |-> <<>>,
          score |-> FInt(0), disc_score |-> FInt(0),
          episode_steps |-> 0, n_episodes |-> 0]
    ELSE LET l == ScoreLoop(dataset, gamma, i - 1)
             score == FAdd(l.score, FInt(dataset[i].rew))
             disc_score ==
                 FAdd(l.disc_score,
                      FMul(FInt(dataset[i].rew),
                           Rat(Power(gamma.n, l.episode_steps),
                               Power(gamma.d, l.episode_steps))))
             episode_steps == l.episode_steps + 1
         IN  IF dataset[i].last
             THEN [scores |-> Append(l.scores, score),
                   disc_scores |-> Append(l.disc_scores, disc_score),
                   lens |-> Append(l.lens, episode_steps),
                   score |-> FInt(0), disc_score |-> FInt(0),
                   episode_steps |-> 0, n_episodes |-> l.n_episodes + 1]
             ELSE [l EXCEPT !.score = score, !.disc_score = disc_score,
                            !.episode_steps = episode_steps]

\* <<np.min(xs), np.max(xs), np.mean(xs), np.std(xs)>> of a list that is
\* not empty; the std is kept as the variance it is the square root of
Stats(xs) ==
    LET n == Len(xs)
        mean == FDiv(FSum(xs, n), FInt(n))
        variance ==
            FDiv(FSum([i \in 1..n |-> Square(FSub(xs[i], mean))], n), FInt(n))
    IN  <<CHOOSE v \in Range(xs) : \A i \in 1..n : FLeq(v, xs[i]),
          CHOOSE v \in Range(xs) : \A i \in 1..n : FLeq(xs[i], v),
          mean,
          [sqrt_of |-> variance]>>

\* the tuple compute_scores returns
compute_scores(dataset, gamma) ==
    LET l == ScoreLoop(dataset, gamma, Len(dataset))
        zero == FInt(0)
    IN  IF Len(l.scores) > 0
        THEN <<FInt(Len(dataset))>> \o Stats(l.scores) \o Stats(l.disc_scores)
                \o <<Stats([i \in 1..Len(l.lens) |-> FInt(l.lens[i])])[3],
                     FInt(l.n_episodes)>>
        ELSE <<FInt(Len(dataset)), zero, zero, zero, zero, zero, zero, zero,
               zero, zero, zero, zero>>

\* ------------------------------------------------------------------------
\* SpecScores: compute_scores called on a drawn dataset
\* ------------------------------------------------------------------------
InitScores ==
    /\ \E dataset \in Datasets, gamma \in {FInt(1), Rat(1, 2)} :
          trial = [pc |-> "compute_scores", dataset |-> dataset, gamma |-> gamma]
    /\ builder = "none"
    /\ pin = None /\ pout = None
    /\ tin = None /\ tout = None
    /\ net = None /\ lastOp = "none" /\ preNet = None /\ syncNet = None
    /\ eps = 0 /\ noise = None /\ call = None

CallComputeScores ==
    /\ trial.pc = "compute_scores"
    /\ trial' = [pc |-> "returned", dataset |-> trial.dataset, gamma |-> trial.gamma,
                 locals |-> ScoreLoop(trial.dataset, trial.gamma, Len(trial.dataset)),
                 result |-> compute_scores(trial.dataset, trial.gamma)]
    /\ UNCHANGED dqnVars

NextScores == CallComputeScores

SpecScores == InitScores /\ [][NextScores]_vars

\* C21: compute_scores returns a tuple of 11 statistics for every dataset,
\* one without an episode end included: the transition count first, then
\* the statistics of the returns, of the discounted returns, the mean
\* length and, last, the episode count.
C21_ElevenStatistics ==
    trial.pc = "returned" =>
        /\ Len(trial.result) = 11
        /\ trial.result[1] = FInt(Len(trial.dataset))
        /\ trial.result[11] = FInt(trial.locals.n_episodes)

\* the indexes of the transitions that end an episode
Ends == {i \in 1..Len(trial.dataset) : trial.dataset[i].last}

\* the first and the last transition of episode e
LastOf(e) == CHOOSE i \in Ends : Cardinality({j \in Ends : j <= i}) = e

FirstOf(e) == IF e = 1 THEN 1 ELSE LastOf(e - 1) + 1

\* sum of rew * gamma^(i - from) over the transitions from..to
RECURSIVE Discounted(_, _, _)
Discounted(gamma, from, to) ==
    IF to < from THEN FInt(0)
    ELSE FAdd(Discounted(gamma, from, to - 1),
              FMul(FInt(trial.dataset[to].rew),
                   Rat(Power(gamma.n, to - from), Power(gamma.d, to - from))))

\* C29: the episode count is the number of transitions whose last field is
\* true and the number of recorded returns, discounted returns and lengths;
\* the return of an episode is the sum of its rewards, its discounted return
\* weights its j-th reward by gamma^j, its length is its number of
\* transitions; the lengths add up to the index of the last episode end,
\* and the transition count is the length of the dataset.
C29_EpisodeAccounting ==
    trial.pc = "returned" =>
        LET l == trial.locals
            n == Cardinality(Ends)
        IN  /\ l.n_episodes = n
            /\ Len(l.scores) = n /\ Len(l.disc_scores) = n /\ Len(l.lens) = n
            /\ \A e \in 1..n :
                  /\ l.scores[e] = Discounted(FInt(1), FirstOf(e), LastOf(e))
                  /\ l.disc_scores[e] = Discounted(trial.gamma, FirstOf(e), LastOf(e))
                  /\ l.lens[e] = LastOf(e) - FirstOf(e) + 1
            /\ ISum(l.lens, n) = (IF n = 0 THEN 0 ELSE LastOf(n))
            /\ trial.result[1] = FInt(Len(trial.dataset))

\* two episodes, rewards late in the second one, gamma below 1, and a
\* trailing transition after the last episode end
C29_Witness ==
    /\ trial.pc = "returned"
    /\ Cardinality(Ends) = 2
    /\ trial.gamma # FInt(1)
    /\ Len(trial.dataset) \notin Ends

\* ------------------------------------------------------------------------
\* Python floats of the sweeps: a double in [0, 4) is hi * 2^29 + lo in
\* units of 2^-58, with its sign
\* ------------------------------------------------------------------------
Limb == Power(2, 29)

\* the spacing of the doubles around hi * 2^29 (53 significant bits), in
\* units of 2^-58
RECURSIVE Granule(_)
Granule(hi) == IF hi < Power(2, 24) THEN 1 ELSE 2 * Granule(hi \div 2)

\* round to nearest, ties to even; sticky: digits were cut off below lo
RoundToDouble(hi, lo, sticky, neg) ==
    LET g == Granule(hi)
        q == lo \div g
        low == lo % g
        up == \/ 2 * low > g
              \/ 2 * low = g /\ (sticky \/ q % 2 = 1)
        lo2 == (IF up THEN q + 1 ELSE q) * g
    IN  [neg |-> neg, hi |-> hi + (lo2 \div Limb), lo |-> lo2 % Limb]

\* 29 more binary digits of a fraction with remainder r over d, d < 2^16,
\* and the new remainder
Digits(r, d) ==
    LET r1 == (r * Power(2, 14)) % d
    IN  [q |-> ((r * Power(2, 14)) \div d) * Power(2, 15)
                  + ((r1 * Power(2, 15)) \div d),
         r |-> (r1 * Power(2, 15)) % d]

\* type=float of the argument parser: the double nearest to +-n/d, for
\* 0 <= n < d
ParseFloat(n, d, neg) ==
    LET hi == Digits(n, d)
        lo == Digits(hi.r, d)
    IN  RoundToDouble(hi.q, lo.q, lo.r > 0, neg /\ n > 0)

\* alpha += delta_alpha (alpha is 0 or has the sign of delta_alpha)
FloatAdd(alpha, delta_alpha) ==
    LET lo == alpha.lo + delta_alpha.lo
    IN  RoundToDouble(alpha.hi + delta_alpha.hi + (lo \div Limb), lo % Limb,
                      FALSE, delta_alpha.neg)

\* alpha <= max_alpha, max_alpha = 1
LeqMaxAlpha(alpha) ==
    alpha.neg \/ alpha.hi < Limb \/ (alpha.hi = Limb /\ alpha.lo = 0)

\* ------------------------------------------------------------------------
\* SpecSweep: one run of a sweep driver, a configuration after the other
\* ------------------------------------------------------------------------
update_types == <<"mean", "weighted", "optimistic">>

\* --delta-alpha as typed, <<n, d, negative>> for +-n/d: the default 0.05
\* and others
DeltaAlphas == {<<1, 20, FALSE>>, <<1, 2, FALSE>>, <<0, 1, FALSE>>, <<1, 20, TRUE>>}

\* <<--min-m, --max-m, --delta-m>>: the defaults and others
MArgs == {<<1, 81, 4>>} \cup ({1, 4} \X {3} \X {-1, 0, 1, 2})

\* the passes of the for loops around the while loop (around the call, in
\* init_variations_experiment)
OuterCount(t) ==
    IF t.sweep = "delayed-q" THEN Len(t.envs)
    ELSE Len(t.envs) * Cardinality(alg_to_policies["particle-ql"])
            * Len(update_types)
            * (IF t.sweep = "init-variations" THEN Cardinality(init_configs) ELSE 1)

\* the last two arguments of trial i, i from 0
TrialArgs(i, t) ==
    [collect_qs |-> IF i = 0 THEN t.collect_qs ELSE FALSE, seed |-> t.seed + i]

\* Parallel(...)(...) returns when some trial has returned
JoinedAny(jobs) ==
    jobs = <<>> \/ \E i \in DOMAIN jobs : jobs[i].status = "returned"

\* Parallel(...)(...) returns when every trial has returned
Joined(jobs) == \A i \in DOMAIN jobs : jobs[i].status = "returned"

InitSweep ==
    /\ \E sweep \in {"init-variations", "add-noise", "delayed-q"},
          seed \in {0, 5}, n_experiments \in 0..MaxTrials,
          collect_qs \in BOOLEAN, affinity \in 1..2,
          delta_alpha \in DeltaAlphas, margs \in MArgs :
          /\ sweep # "add-noise" => delta_alpha = <<1, 20, FALSE>>
          /\ sweep # "delayed-q" => margs = <<1, 81, 4>>
          /\ \E envs \in (IF sweep = "delayed-q"
                          THEN {<<"Chain">>,
                                <<"RiverSwim", "SixArms", "Taxi", "KnightQuest", "Chain">>}
                          ELSE {<<"Chain">>, <<"Chain", "Loop">>}) :
                trial = [pc |-> "for", sweep |-> sweep, envs |-> envs,
                         seed |-> seed, n_experiments |-> n_experiments,
                         collect_qs |-> collect_qs, affinity |-> affinity,
                         typed |-> delta_alpha,
                         delta_alpha |-> ParseFloat(delta_alpha[1], delta_alpha[2],
                                                    delta_alpha[3]),
                         min_m |-> margs[1], max_m |-> margs[2], delta_m |-> margs[3],
                         outer |-> 0, alpha |-> ParseFloat(0, 1, FALSE), m |-> margs[1],
                         runs |-> 0, ms |-> <<>>, jobs |-> <<>>, file |-> None]
    /\ builder = "none"
    /\ pin = None /\ pout = None
    /\ tin = None /\ tout = None
    /\ net = None /\ lastOp = "none" /\ preNet = None /\ syncNet = None
    /\ eps = 0 /\ noise = None /\ call = None

\* the head of the for loops: the next (env, policy, update_type[, init])
\* with alpha = 0 or m = min_m, or the return of the driver
ForNext ==
    /\ trial.pc = "for"
    /\ trial' = IF trial.outer = OuterCount(trial)
                THEN [trial EXCEPT !.pc = "done"]
                ELSE [trial EXCEPT !.pc = "while", !.outer = @ + 1,
                                   !.alpha = ParseFloat(0, 1, FALSE),
                                   !.m = trial.min_m, !.runs = 0, !.ms = <<>>]
    /\ UNCHANGED dqnVars

\* the head of the while loop (init_variations_experiment: the body, once)
\* and the call of Parallel, which queues the trials in order
WhileTest ==
    /\ trial.pc = "while"
    /\ IF CASE trial.sweep = "add-noise" -> LeqMaxAlpha(trial.alpha)
            [] trial.sweep = "delayed-q" -> trial.m <= trial.max_m
            [] OTHER -> trial.runs = 0
       THEN /\ trial.runs < MaxRuns
            /\ trial' = [trial EXCEPT !.pc = "parallel",
                            !.jobs = [i \in 1..trial.n_experiments |->
                                        [status |-> "queued", result |-> None,
                                         args |-> TrialArgs(i - 1, trial)]]]
       ELSE trial' = [trial EXCEPT !.pc = "for"]
    /\ UNCHANGED dqnVars

\* a worker takes the next queued trial
StartJob ==
    /\ trial.pc = "parallel"
    /\ \E i \in DOMAIN trial.jobs :
          /\ trial.jobs[i].status = "queued"
          /\ \A j \in 1..(i - 1) : trial.jobs[j].status # "queued"
          /\ Cardinality({j \in DOMAIN trial.jobs : trial.jobs[j].status = "running"})
                < trial.affinity
          /\ trial' = [trial EXCEPT !.jobs[i].status = "running"]
    /\ UNCHANGED dqnVars

\* experiment(..., collect_qs, seed) returns in a worker
ReturnJob ==
    /\ trial.pc = "parallel"
    /\ \E i \in DOMAIN trial.jobs :
          /\ trial.jobs[i].status = "running"
          /\ trial' = [trial EXCEPT !.jobs[i].status = "returned",
                          !.jobs[i].result =
                              [kind |-> "scores", seed |-> trial.jobs[i].args.seed,
                               collected_qs |-> trial.jobs[i].args.collect_qs]]
    /\ UNCHANGED dqnVars

\* Parallel returns out, np.save writes it, and the loop variable moves on
np_save ==
    /\ trial.pc = "parallel"
    /\ Joined(trial.jobs)
    /\ trial' = [trial EXCEPT
            !.pc = "while",
            !.file = [kind |-> "results", outer |-> trial.outer, run |-> trial.runs,
                      out |-> [i \in DOMAIN trial.jobs |-> trial.jobs[i].result],
                      unreturned |-> Cardinality({i \in DOMAIN trial.jobs :
                                        trial.jobs[i].status # "returned"})],
            !.jobs = <<>>,
            !.runs = @ + 1,
            !.ms = IF trial.sweep = "delayed-q" THEN Append(@, trial.m) ELSE @,
            !.m = IF trial.sweep = "delayed-q" THEN @ + trial.delta_m ELSE @,
            !.alpha = IF trial.sweep = "add-noise"
                      THEN FloatAdd(@, trial.delta_alpha) ELSE @]
    /\ UNCHANGED dqnVars

NextSweep ==
    \/ ForNext
    \/ WhileTest
    \/ StartJob
    \/ ReturnJob
    \/ np_save

SpecSweep == InitSweep /\ [][NextSweep]_vars

\* C22: a results file is written only after all n_experiments trials of
\* its configuration have returned; it holds one result per trial, in trial
\* order; trial i (from 0) ran with seed args.seed + i, so the seeds are
\* pairwise distinct; only trial 0 may have collected Q values.
C22_JoinThenSave ==
    trial.file # None =>
        /\ trial.file.unreturned = 0
        /\ Len(trial.file.out) = trial.n_experiments
        /\ \A i \in 1..trial.n_experiments :
              /\ trial.file.out[i].kind = "scores"
              /\ trial.file.out[i].seed = trial.seed + (i - 1)
              /\ trial.file.out[i].collected_qs => i = 1 /\ trial.collect_qs
              /\ \A j \in 1..trial.n_experiments :
                    i # j => trial.file.out[i].seed # trial.file.out[j].seed

\* a file of several trials, the first of which collected Q values, written
\* in a sweep with a seed other than 0
C22_Witness ==
    /\ trial.file # None
    /\ Len(trial.file.out) >= 2
    /\ trial.file.out[1].collected_qs
    /\ trial.seed # 0

Epochs(name) == IF name = "Taxi" THEN 500000 \div 5000 ELSE 100000 \div 1000

\* experiment() has built mdp, pi, agent and core. hasattr(pi, 'set_epsilon')
\* and hasattr(pi, 'set_eval') are decided by the class of pi; epsilon_train
\* is bound in the particle-ql branch only. mode is the mode set_eval has
\* put pi in, epsilon the parameter set_epsilon has given it.
InitEpochs ==
    /\ \E algorithm \in {"particle-ql", "delayed-ql"}, name \in {"Taxi", "Chain"},
          has_set_epsilon \in BOOLEAN, has_set_eval \in BOOLEAN,
          collect_qs \in BOOLEAN :
          trial = [pc |-> "for", algorithm |-> algorithm, name |-> name,
                   has_set_epsilon |-> has_set_epsilon,
                   has_set_eval |-> has_set_eval,
                   collect_qs |-> collect_qs,
                   epsilon_train_bound |-> (algorithm = "particle-ql"),
                   n_epoch |-> 0, mode |-> "unset", epsilon |-> "unset",
                   collected |-> FALSE, mdp_reset |-> FALSE,
                   train_scores |-> 0, test_scores |-> 0,
                   saved_qs |-> FALSE, error |-> "none"]
    /\ builder = "none"
    /\ pin = None /\ pout = None
    /\ tin = None /\ tout = None
    /\ net = None /\ lastOp = "none" /\ preNet = None /\ syncNet = None
    /\ eps = 0 /\ noise = None /\ call = None

\* the head of the for loop and the two guarded calls before core.learn
SetExploring ==
    /\ trial.pc = "for" /\ trial.n_epoch < Epochs(trial.name)
    /\ trial' =
          IF trial.has_set_epsilon /\ ~trial.epsilon_train_bound
          THEN [trial EXCEPT !.pc = "raised", !.n_epoch = @ + 1,
                             !.error = "UnboundLocalError"]
          ELSE [trial EXCEPT
                  !.pc = "learn", !.n_epoch = @ + 1,
                  !.epsilon = IF trial.has_set_epsilon THEN "epsilon_train" ELSE @,
                  !.mode = IF trial.has_set_eval THEN "exploring" ELSE @]
    /\ UNCHANGED dqnVars

\* core.learn(n_steps=evaluation_frequency, ...): the callback collects the
\* transitions
Learn ==
    /\ trial.pc = "learn"
    /\ trial' = [trial EXCEPT !.pc = "train_scores", !.collected = TRUE,
                              !.mdp_reset = FALSE]
    /\ UNCHANGED dqnVars

\* dataset = collect_dataset.get() ... mdp.reset()
TrainScores ==
    /\ trial.pc = "train_scores"
    /\ trial' = [trial EXCEPT !.pc = "test", !.train_scores = @ + 1,
                              !.collected = FALSE, !.mdp_reset = TRUE]
    /\ UNCHANGED dqnVars

\* the two guarded calls before core.evaluate
SetEvaluating ==
    /\ trial.pc = "test"
    /\ trial' = [trial EXCEPT
                  !.pc = "evaluate",
                  !.epsilon = IF trial.has_set_epsilon THEN "epsilon_test" ELSE @,
                  !.mode = IF trial.has_set_eval THEN "evaluating" ELSE @]
    /\ UNCHANGED dqnVars

\* dataset = core.evaluate(n_steps=test_samples, ...)
Evaluate ==
    /\ trial.pc = "evaluate"
    /\ trial' = [trial EXCEPT !.pc = "test_scores", !.mdp_reset = FALSE]
    /\ UNCHANGED dqnVars

\* mdp.reset() ... test_scores.append(scores)
TestScores ==
    /\ trial.pc = "test_scores"
    /\ trial' = [trial EXCEPT !.pc = "for", !.test_scores = @ + 1,
                              !.mdp_reset = TRUE]
    /\ UNCHANGED dqnVars

\* the loop is over: the Q values are saved if collected, and
\* train_scores, test_scores returned
Return ==
    /\ trial.pc = "for" /\ trial.n_epoch = Epochs(trial.name)
    /\ trial' = [trial EXCEPT !.pc = "returned", !.saved_qs = trial.collect_qs]
    /\ UNCHANGED dqnVars

NextEpochs ==
    \/ SetExploring
    \/ Learn
    \/ TrainScores
    \/ SetEvaluating
    \/ Evaluate
    \/ TestScores
    \/ Return

SpecEpochs == InitEpochs /\ [][NextEpochs]_vars

\* C24: in every epoch 1 .. max_steps // evaluation_frequency the policy is
\* exploring, with epsilon_train, when core.learn runs, and evaluating, with
\* epsilon_test, when core.evaluate runs; core.evaluate starts with the
\* collected dataset cleared and the environment reset; every epoch is run,
\* and at return train_scores and test_scores hold
\* max_steps // evaluation_frequency entries each.
C24_EpochLoop ==
    /\ trial.pc # "raised"
    /\ trial.n_epoch \in 0..Epochs(trial.name)
    /\ trial.pc = "learn" =>
          trial.mode = "exploring" /\ trial.epsilon = "epsilon_train"
    /\ trial.pc = "evaluate" =>
          /\ trial.mode = "evaluating" /\ trial.epsilon = "epsilon_test"
          /\ ~trial.collected /\ trial.mdp_reset
    /\ trial.pc = "returned" =>
          /\ trial.train_scores = Epochs(trial.name)
          /\ trial.test_scores = Epochs(trial.name)

====
